---- MODULE Spec2Model ----
(***************************************************************************)
(* SecretShare: the per-identifier secret actor (SecretDurableObject) and  *)
(* the Worker routes that call it, for one secret identifier.              *)
(*                                                                         *)
(* Time is counted in seconds.  A Durable Object delivers no event (a new  *)
(* request, an alarm, the completion of a non-storage await) while one of  *)
(* its handlers awaits a storage operation; `gate` is the handler that     *)
(* holds this input gate.  An await of anything else (the request body in  *)
(* handleStore) opens the gate.  An awaited storage write may reject: the  *)
(* handler then throws and the writes it completed before stay.            *)
(***************************************************************************)
EXTENDS Integers, FiniteSets, Sequences, TLC

\* ---------------------------------------------------------------- bounds
MaxCalls == 3
MaxTicks == 1
MaxCreates == 1

\* ------------------------------------------------------------- constants
undefined == "undefined"
null == -1
missing == -2

METADATA_TTL == 30 * 24 * 60 * 60
ALLOWED_TTLS == {3600, 86400, 604800, 2592000}
MAX_ENCRYPTED_SIZE == 70 * 1024
MAX_SALT_LENGTH == 100
ID_LENGTH == 22

\* ---------------------------------------------------------------- inputs
Base64Url == {"A", "z", "0", "_", "-"}
GoodId == [i \in 1..ID_LENGTH |-> "A"]
ShortId == [i \in 1..(ID_LENGTH - 1) |-> "A"]
BadCharId == [i \in 1..ID_LENGTH |-> IF i = 1 THEN "+" ELSE "A"]
Ids == {GoodId, ShortId, BadCharId}

Oversized == "oversized"
LongSalt == "longsalt"
NoUser == [id |-> undefined]
SignedIn == [id |-> "u1"]
CountryHeaders == {undefined, "", "US"}

\* the origin of the request's own URL, and the Origin headers a request
\* may carry
OwnOrigin == "https://app"
Origins == {undefined, "", OwnOrigin, "https://evil"}
SampleOrigins == {undefined, OwnOrigin}

\* String.length of the sample strings
StrLen(s) ==
  CASE s = "" -> 0
    [] s = Oversized -> MAX_ENCRYPTED_SIZE + 1
    [] s = LongSalt -> MAX_SALT_LENGTH + 1
    [] OTHER -> 1

\* the sample of create requests (the body and the session's user): two
\* well-formed ones and one for each way of being rejected
Plain ==
  [id |-> GoodId, encrypted |-> "P", salt |-> undefined,
   passwordProtected |-> FALSE, ttl |-> 3600]
Protected ==
  [id |-> GoodId, encrypted |-> "Q", salt |-> "S",
   passwordProtected |-> TRUE, ttl |-> 2592000]
Bodies ==
  {Plain, Protected,
   [Plain EXCEPT !.id = ShortId],
   [Plain EXCEPT !.id = BadCharId],
   [Plain EXCEPT !.encrypted = ""],
   [Plain EXCEPT !.encrypted = Oversized],
   [Protected EXCEPT !.salt = LongSalt],
   [Plain EXCEPT !.ttl = 0],
   [Plain EXCEPT !.ttl = 7200],
   [Plain EXCEPT !.ttl = 2592000]}
CreateRequests ==
  {[body |-> b, user |-> NoUser] : b \in Bodies}
    \cup {[body |-> Protected, user |-> SignedIn]}

\* every create request over the sample values of each field
AllCreateRequests ==
  [body : [id : Ids,
           encrypted : {"", "P", Oversized},
           salt : {undefined, "", "S", LongSalt},
           passwordProtected : BOOLEAN,
           ttl : {0, 3600, 7200, 86400, 604800, 2592000}],
   user : {NoUser, SignedIn}]

\* ----------------------------------------------------------------- state
VARIABLES
  record,   \* storage key 'record' of the actor (NoRecord: no such key)
  alarm,    \* the actor's one scheduled alarm; `by` remembers who set it
  calls,    \* the requests of the run, by number
  gate,     \* 0, or the call whose handler holds the actor's input gate
  now,      \* the clock
  ticks,    \* how often the clock advanced
  users,    \* the USERS namespace: the user record of each account
  sessions, \* the SESSIONS namespace: sessions and OAuth states, by key
  page      \* the reveal page open in a browser

web == <<users, sessions, page>>
vars == <<record, alarm, calls, gate, now, ticks, users, sessions, page>>

NoRecord == [status |-> "absent"]
NoAlarm == [time |-> null, by |-> "none"]
NoResponse == [status |-> "none"]

CallIds == 1..MaxCalls

\* the accounts, and a user record as routes/auth.ts creates it
UserIds == {"u1"}
NewUser(u) == [id |-> u, secrets |-> << >>]

\* no key of the SESSIONS namespace has a value, and no page is open
NoEntry == [kind |-> "absent"]
NoPage == [view |-> "closed"]

\* the request handlers of the secret routes use neither namespace nor page
WebIdle ==
  /\ users = [u \in UserIds |-> NewUser(u)]
  /\ sessions = << >>
  /\ page = NoPage

NoCall ==
  [op |-> "none", pc |-> "idle", atStart |-> "none", record |-> NoRecord,
   ttl |-> 0, country |-> undefined, code |-> 0, out |-> NoResponse]

\* ------------------------------------------------------------ pure parts
\* csrfProtection: 0 when the request goes on to its route, else the status
csrfProtection(method, origin, url) ==
  IF method \in {"GET", "HEAD", "OPTIONS"} THEN 0
  ELSE IF origin = undefined \/ origin = "" THEN 403
  ELSE IF origin # url THEN 403
  ELSE 0

\* the test of the length alone
isValidSecretIdLengthOnly(id) == DOMAIN id = 1..ID_LENGTH

isValidSecretId(id) ==
  /\ DOMAIN id = 1..ID_LENGTH
  /\ \A i \in DOMAIN id : id[i] \in Base64Url

\* the validation without the sign-in rule for the 30-day ttl
ValidateCreateAnyoneThirtyDays(body, user) ==
  IF ~isValidSecretId(body.id) THEN 400
  ELSE IF body.encrypted = "" THEN 400
  ELSE IF StrLen(body.encrypted) > MAX_ENCRYPTED_SIZE THEN 400
  ELSE IF body.salt # undefined /\ StrLen(body.salt) > MAX_SALT_LENGTH THEN 400
  ELSE IF body.ttl \notin ALLOWED_TTLS THEN 400
  ELSE 0

\* the validation without the limit on the payload's size
ValidateCreateNoSizeLimit(body, user) ==
  IF ~isValidSecretId(body.id) THEN 400
  ELSE IF body.encrypted = "" THEN 400
  ELSE IF body.salt # undefined /\ StrLen(body.salt) > MAX_SALT_LENGTH THEN 400
  ELSE IF body.ttl \notin ALLOWED_TTLS THEN 400
  ELSE IF body.ttl = 2592000 /\ user = NoUser THEN 403
  ELSE 0

\* POST /api/secrets validation: 0 when the request passes, else the status
ValidateCreate(body, user) ==
  IF ~isValidSecretId(body.id) THEN 400
  ELSE IF body.encrypted = "" THEN 400
  ELSE IF StrLen(body.encrypted) > MAX_ENCRYPTED_SIZE THEN 400
  ELSE IF body.salt # undefined /\ StrLen(body.salt) > MAX_SALT_LENGTH THEN 400
  ELSE IF body.ttl \notin ALLOWED_TTLS THEN 400
  ELSE IF body.ttl = 2592000 /\ user = NoUser THEN 403
  ELSE 0

BuildRecord(body, user, t) ==
  [encrypted |-> body.encrypted,
   salt |-> body.salt,
   passwordProtected |-> body.passwordProtected,
   createdAt |-> t,
   expiresAt |-> t + body.ttl,
   viewedAt |-> null,
   status |-> "pending",
   creatorUserId |-> user.id,
   viewerCountry |-> undefined]

\* the route forwards cf-ipcountry when it is truthy; the actor reads
\* headers.get('cf-ipcountry') || undefined
ViewerCountry(header) ==
  IF header = undefined \/ header = "" THEN undefined ELSE header

\* the check rejecting only a record that is still pending
StoreConflictPendingOnly(existing) ==
  existing # NoRecord /\ existing.status = "pending"

StoreConflict(existing) == existing # NoRecord

\* the check without the test of the status
RetrieveNotFoundAbsentOnly(rec) == rec = NoRecord

\* the check that lets an expired record through
RetrieveNotFoundViewedOnly(rec) == rec = NoRecord \/ rec.status = "viewed"

\* the check that lets a viewed record through
RetrieveNotFoundExpiredOnly(rec) == rec = NoRecord \/ rec.status = "expired"

RetrieveNotFound(rec) == rec = NoRecord \/ rec.status # "pending"

RetrieveResponse(rec) ==
  [encrypted |-> rec.encrypted,
   salt |-> rec.salt,
   passwordProtected |-> rec.passwordProtected,
   createdAt |-> rec.createdAt,
   expiresAt |-> rec.expiresAt]

\* the burn that leaves the encrypted data in the record
BurnKeepsPayload(rec, viewerCountry, t) ==
  [rec EXCEPT !.status = "viewed",
              !.viewedAt = t,
              !.viewerCountry = viewerCountry]

\* the burn that does not stamp viewedAt
BurnWithoutViewedAt(rec, viewerCountry, t) ==
  [rec EXCEPT !.encrypted = "",
              !.salt = undefined,
              !.status = "viewed",
              !.viewerCountry = viewerCountry]

\* the burn that forgets to write anything
BurnLeavesPending(rec, viewerCountry, t) == rec

BurnRecord(rec, viewerCountry, t) ==
  [rec EXCEPT !.encrypted = "",
              !.salt = undefined,
              !.status = "viewed",
              !.viewedAt = t,
              !.viewerCountry = viewerCountry]

\* the expiry that keeps the salt
ExpireKeepsSalt(rec) ==
  [rec EXCEPT !.encrypted = "", !.status = "expired"]

ExpireRecord(rec) ==
  [rec EXCEPT !.encrypted = "", !.salt = undefined, !.status = "expired"]

\* the status that answers unknown whatever the record
StatusResponseAlwaysUnknown(rec) == [status |-> "unknown"]

\* the status that leaves the viewing time out
StatusResponseNoViewedAt(rec) ==
  IF rec = NoRecord THEN [status |-> "unknown"]
  ELSE [status |-> rec.status,
        createdAt |-> rec.createdAt,
        expiresAt |-> rec.expiresAt,
        viewedAt |-> null,
        viewerCountry |-> rec.viewerCountry]

StatusResponse(rec) ==
  IF rec = NoRecord THEN [status |-> "unknown"]
  ELSE [status |-> rec.status,
        createdAt |-> rec.createdAt,
        expiresAt |-> rec.expiresAt,
        viewedAt |-> rec.viewedAt,
        viewerCountry |-> rec.viewerCountry]

\* the cleanup that deletes nothing
DeleteNothing(rec) == rec

\* the cleanup that clears the viewing metadata only
DeleteViewingMetadataOnly(rec) ==
  IF rec = NoRecord THEN rec
  ELSE [rec EXCEPT !.viewedAt = null, !.viewerCountry = undefined]

\* the cleanup that keeps the record as a tombstone
DeleteLeavesTombstone(rec) ==
  IF rec = NoRecord THEN rec ELSE [rec EXCEPT !.status = "deleted"]

DeleteAll(rec) == NoRecord

\* the scheduling that keeps an alarm that is due earlier
SetAlarmKeepsEarlier(current, time, by) ==
  IF current # NoAlarm /\ current.time <= time THEN current
  ELSE [time |-> time, by |-> by]

\* storage.setAlarm: the actor has one alarm, a new one replaces it
SetAlarm(current, time, by) == [time |-> time, by |-> by]

\* ------------------------------------------------------------------ Init
Init ==
  /\ record = NoRecord
  /\ alarm = NoAlarm
  /\ calls = [c \in CallIds |-> NoCall]
  /\ gate = 0
  /\ now = 0
  /\ ticks = 0
  /\ WebIdle

\* calls are numbered in the order in which they are issued
Fresh(c) ==
  /\ calls[c].op = "none"
  /\ \A d \in CallIds : d < c => calls[d].op # "none"

Finish(c, code, out) ==
  [calls EXCEPT ![c].pc = "done", ![c].code = code, ![c].out = out]

\* --------------------------------------------------------------- actions
\* POST /api/secrets up to the stub.fetch that sends the PUT to the actor
StoreRequest(c, req, origin) ==
  /\ Fresh(c)
  /\ LET body == req.body
         user == req.user
         csrf == csrfProtection("POST", origin, OwnOrigin)
         bad == IF csrf # 0 THEN csrf ELSE ValidateCreate(body, user) IN
     calls' = [calls EXCEPT ![c] =
       IF bad # 0
         THEN [NoCall EXCEPT !.op = "store", !.pc = "done", !.code = bad]
         ELSE [NoCall EXCEPT !.op = "store", !.pc = "get",
                             !.record = BuildRecord(body, user, now),
                             !.ttl = body.ttl]]
  /\ UNCHANGED <<record, alarm, gate, now, ticks, web>>

StoreIssue(c) ==
  \E req \in CreateRequests, origin \in SampleOrigins :
    StoreRequest(c, req, origin)

\* handleStore: the existence check, then the await of the request body
StoreGet(c) ==
  /\ calls[c].op = "store" /\ calls[c].pc = "get"
  /\ gate = 0
  /\ calls' = IF StoreConflict(record)
                THEN [Finish(c, 409, NoResponse) EXCEPT ![c].record = NoRecord]
                ELSE [calls EXCEPT ![c].pc = "json"]
  /\ UNCHANGED <<record, alarm, gate, now, ticks, web>>

\* handleStore after the body arrived: put, setAlarm, 201
StoreWrite(c) ==
  /\ calls[c].op = "store" /\ calls[c].pc = "json"
  /\ gate = 0
  /\ record' = calls[c].record
  /\ alarm' = SetAlarm(alarm, now + calls[c].ttl, "store")
  /\ calls' = Finish(c, 201, NoResponse)
  /\ UNCHANGED <<gate, now, ticks, web>>

\* handleStore: storage.put rejects
StorePutFail(c) ==
  /\ calls[c].op = "store" /\ calls[c].pc = "json"
  /\ gate = 0
  /\ calls' = [Finish(c, 500, NoResponse) EXCEPT ![c].record = NoRecord]
  /\ UNCHANGED <<record, alarm, gate, now, ticks, web>>

\* handleStore: storage.put succeeded, storage.setAlarm rejects
StoreSetAlarmFail(c) ==
  /\ calls[c].op = "store" /\ calls[c].pc = "json"
  /\ gate = 0
  /\ record' = calls[c].record
  /\ calls' = Finish(c, 500, NoResponse)
  /\ UNCHANGED <<alarm, gate, now, ticks, web>>

\* GET /api/secrets/:id up to the stub.fetch
RetrieveCall(id, header, origin) ==
  LET csrf == csrfProtection("GET", origin, OwnOrigin) IN
  IF csrf # 0
    THEN [NoCall EXCEPT !.op = "retrieve", !.pc = "done", !.code = csrf]
  ELSE IF ~isValidSecretId(id)
    THEN [NoCall EXCEPT !.op = "retrieve", !.pc = "done", !.code = 404]
    ELSE [NoCall EXCEPT !.op = "retrieve", !.pc = "get",
                        !.atStart = record.status,
                        !.country = ViewerCountry(header)]

RetrieveRequest(c, id, header, origin) ==
  /\ Fresh(c)
  /\ calls' = [calls EXCEPT ![c] = RetrieveCall(id, header, origin)]
  /\ UNCHANGED <<record, alarm, gate, now, ticks, web>>

RetrieveIssue(c) ==
  \E id \in Ids, header \in CountryHeaders, origin \in SampleOrigins :
    RetrieveRequest(c, id, header, origin)

\* handleRetrieve: get, the check, the snapshot, the burn of the local
\* record, and the call of storage.put
RetrieveGet(c) ==
  /\ calls[c].op = "retrieve" /\ calls[c].pc = "get"
  /\ gate = 0
  /\ IF RetrieveNotFound(record)
       THEN /\ calls' = Finish(c, 404, NoResponse)
            /\ gate' = gate
       ELSE /\ calls' = [calls EXCEPT
                 ![c].pc = "put",
                 ![c].out = RetrieveResponse(record),
                 ![c].record = BurnRecord(record, calls[c].country, now)]
            /\ gate' = c
  /\ UNCHANGED <<record, alarm, now, ticks, web>>

\* handleRetrieve: put completed, setAlarm, the 200 response
RetrievePut(c) ==
  /\ calls[c].op = "retrieve" /\ calls[c].pc = "put"
  /\ gate = c
  /\ record' = calls[c].record
  /\ alarm' = SetAlarm(alarm, now + METADATA_TTL, "retrieve")
  /\ calls' = Finish(c, 200, calls[c].out)
  /\ gate' = 0
  /\ UNCHANGED <<now, ticks, web>>

\* handleRetrieve: storage.put rejects
RetrievePutFail(c) ==
  /\ calls[c].op = "retrieve" /\ calls[c].pc = "put"
  /\ gate = c
  /\ calls' = Finish(c, 500, NoResponse)
  /\ gate' = 0
  /\ UNCHANGED <<record, alarm, now, ticks, web>>

\* handleRetrieve: storage.put succeeded, storage.setAlarm rejects
RetrieveSetAlarmFail(c) ==
  /\ calls[c].op = "retrieve" /\ calls[c].pc = "put"
  /\ gate = c
  /\ record' = calls[c].record
  /\ calls' = Finish(c, 500, NoResponse)
  /\ gate' = 0
  /\ UNCHANGED <<alarm, now, ticks, web>>

\* GET /api/secrets/:id/status up to the stub.fetch
StatusCall(id) ==
  IF ~isValidSecretId(id)
    THEN [NoCall EXCEPT !.op = "status", !.pc = "done", !.code = 200,
                        !.out = [status |-> "unknown"]]
    ELSE [NoCall EXCEPT !.op = "status", !.pc = "get",
                        !.atStart = record.status]

StatusRequest(c, id) ==
  /\ Fresh(c)
  /\ calls' = [calls EXCEPT ![c] = StatusCall(id)]
  /\ UNCHANGED <<record, alarm, gate, now, ticks, web>>

StatusIssue(c) == \E id \in Ids : StatusRequest(c, id)

\* handleStatus
StatusGet(c) ==
  /\ calls[c].op = "status" /\ calls[c].pc = "get"
  /\ gate = 0
  /\ calls' = Finish(c, 200, StatusResponse(record))
  /\ UNCHANGED <<record, alarm, gate, now, ticks, web>>

\* alarm(): the platform clears the alarm when it delivers it
AlarmDue == alarm # NoAlarm /\ now >= alarm.time

Alarm ==
  /\ AlarmDue
  /\ gate = 0
  /\ IF record # NoRecord /\ record.status = "pending"
       THEN /\ record' = ExpireRecord(record)
            /\ alarm' = SetAlarm(NoAlarm, now + METADATA_TTL, "alarm")
       ELSE /\ record' = DeleteAll(record)
            /\ alarm' = NoAlarm
  /\ UNCHANGED <<calls, gate, now, ticks, web>>

\* the clock: a second passes while a request is under way
Tick ==
  /\ ticks < MaxTicks
  /\ \E c \in CallIds : calls[c].pc \in {"get", "json", "put"}
  /\ now' = now + 1
  /\ ticks' = ticks + 1
  /\ UNCHANGED <<record, alarm, calls, gate, web>>

\* the clock: the time passes until the alarm is due or the record expires
Advance ==
  /\ \E t \in {alarm.time} \cup (IF record = NoRecord THEN {} ELSE {record.expiresAt}) :
       /\ t > now
       /\ now' = t
  /\ UNCHANGED <<record, alarm, calls, gate, ticks, web>>

Next ==
  \/ \E c \in CallIds : StoreIssue(c)
  \/ \E c \in CallIds : StoreGet(c)
  \/ \E c \in CallIds : StoreWrite(c)
  \/ \E c \in CallIds : StorePutFail(c)
  \/ \E c \in CallIds : StoreSetAlarmFail(c)
  \/ \E c \in CallIds : RetrieveIssue(c)
  \/ \E c \in CallIds : RetrieveGet(c)
  \/ \E c \in CallIds : RetrievePut(c)
  \/ \E c \in CallIds : RetrievePutFail(c)
  \/ \E c \in CallIds : RetrieveSetAlarmFail(c)
  \/ \E c \in CallIds : StatusIssue(c)
  \/ \E c \in CallIds : StatusGet(c)
  \/ Alarm
  \/ Tick
  \/ Advance

Spec == Init /\ [][Next]_vars

\* POST /api/secrets alone, over every create request of the sample
CreateIds == 1..MaxCreates

CreateIssue(c) ==
  \E req \in AllCreateRequests, origin \in Origins :
    StoreRequest(c, req, origin)

CreateNext ==
  \/ \E c \in CreateIds : CreateIssue(c)
  \/ \E c \in CreateIds : StoreGet(c)
  \/ \E c \in CreateIds : StoreWrite(c)
  \/ \E c \in CreateIds : StorePutFail(c)
  \/ \E c \in CreateIds : StoreSetAlarmFail(c)
  \/ Alarm
  \/ Tick
  \/ Advance

CreateSpec == Init /\ [][CreateNext]_vars

\* ------------------------------------------------------ two identifiers
\* The routes reach the actor of an identifier through
\* SECRET_DO.idFromName(id); every actor has its own storage, alarm and
\* input gate.  Below, record, alarm and gate are functions of the actor.
\* Storage failures and the one-second clock are left to Spec.
OtherId == [i \in 1..ID_LENGTH |-> "z"]
IsoIds == {GoodId, OtherId}

\* every name maps to the one actor
idFromNameConstant(id) == <<"SECRET_DO", GoodId>>

idFromName(id) == <<"SECRET_DO", id>>

DoIds == {idFromName(id) : id \in IsoIds}
RecordOf(id) == record[idFromName(id)]
AlarmOf(id) == alarm[idFromName(id)]

IsoNoCall ==
  [op |-> "none", pc |-> "idle", id |-> << >>, record |-> NoRecord,
   ttl |-> 0, country |-> undefined, code |-> 0, out |-> NoResponse]

IsoInit ==
  /\ record = [d \in DoIds |-> NoRecord]
  /\ alarm = [d \in DoIds |-> NoAlarm]
  /\ calls = [c \in CallIds |-> IsoNoCall]
  /\ gate = [d \in DoIds |-> 0]
  /\ now = 0
  /\ ticks = 0
  /\ WebIdle

IsoStoreIssue(c) ==
  /\ Fresh(c)
  /\ \E id \in IsoIds, body \in {Plain, [Plain EXCEPT !.ttl = 86400]} :
       calls' = [calls EXCEPT ![c] =
         [IsoNoCall EXCEPT !.op = "store", !.pc = "get", !.id = id,
            !.record = BuildRecord([body EXCEPT !.id = id], NoUser, now),
            !.ttl = body.ttl]]
  /\ UNCHANGED <<record, alarm, gate, now, ticks, web>>

IsoStoreGet(c) ==
  /\ calls[c].op = "store" /\ calls[c].pc = "get"
  /\ gate[idFromName(calls[c].id)] = 0
  /\ calls' = IF StoreConflict(RecordOf(calls[c].id))
                THEN [Finish(c, 409, NoResponse) EXCEPT ![c].record = NoRecord]
                ELSE [calls EXCEPT ![c].pc = "json"]
  /\ UNCHANGED <<record, alarm, gate, now, ticks, web>>

IsoStoreWrite(c) ==
  /\ calls[c].op = "store" /\ calls[c].pc = "json"
  /\ LET d == idFromName(calls[c].id) IN
       /\ gate[d] = 0
       /\ record' = [record EXCEPT ![d] = calls[c].record]
       /\ alarm' = [alarm EXCEPT
                      ![d] = SetAlarm(alarm[d], now + calls[c].ttl, "store")]
  /\ calls' = Finish(c, 201, NoResponse)
  /\ UNCHANGED <<gate, now, ticks, web>>

IsoRetrieveIssue(c) ==
  /\ Fresh(c)
  /\ \E id \in IsoIds, header \in {undefined, "US"} :
       calls' = [calls EXCEPT ![c] =
         [IsoNoCall EXCEPT !.op = "retrieve", !.pc = "get", !.id = id,
                           !.country = ViewerCountry(header)]]
  /\ UNCHANGED <<record, alarm, gate, now, ticks, web>>

IsoRetrieveGet(c) ==
  /\ calls[c].op = "retrieve" /\ calls[c].pc = "get"
  /\ LET d == idFromName(calls[c].id) IN
       /\ gate[d] = 0
       /\ IF RetrieveNotFound(record[d])
            THEN /\ calls' = Finish(c, 404, NoResponse)
                 /\ gate' = gate
            ELSE /\ calls' = [calls EXCEPT
                      ![c].pc = "put",
                      ![c].out = RetrieveResponse(record[d]),
                      ![c].record = BurnRecord(record[d], calls[c].country, now)]
                 /\ gate' = [gate EXCEPT ![d] = c]
  /\ UNCHANGED <<record, alarm, now, ticks, web>>

IsoRetrievePut(c) ==
  /\ calls[c].op = "retrieve" /\ calls[c].pc = "put"
  /\ LET d == idFromName(calls[c].id) IN
       /\ gate[d] = c
       /\ record' = [record EXCEPT ![d] = calls[c].record]
       /\ alarm' = [alarm EXCEPT
                      ![d] = SetAlarm(alarm[d], now + METADATA_TTL, "retrieve")]
       /\ gate' = [gate EXCEPT ![d] = 0]
  /\ calls' = Finish(c, 200, calls[c].out)
  /\ UNCHANGED <<now, ticks, web>>

IsoStatusIssue(c) ==
  /\ Fresh(c)
  /\ \E id \in IsoIds :
       calls' = [calls EXCEPT ![c] =
         [IsoNoCall EXCEPT !.op = "status", !.pc = "get", !.id = id]]
  /\ UNCHANGED <<record, alarm, gate, now, ticks, web>>

IsoStatusGet(c) ==
  /\ calls[c].op = "status" /\ calls[c].pc = "get"
  /\ gate[idFromName(calls[c].id)] = 0
  /\ calls' = Finish(c, 200, StatusResponse(RecordOf(calls[c].id)))
  /\ UNCHANGED <<record, alarm, gate, now, ticks, web>>

IsoAlarm(d) ==
  /\ alarm[d] # NoAlarm /\ now >= alarm[d].time
  /\ gate[d] = 0
  /\ IF record[d] # NoRecord /\ record[d].status = "pending"
       THEN /\ record' = [record EXCEPT ![d] = ExpireRecord(record[d])]
            /\ alarm' = [alarm EXCEPT
                  ![d] = SetAlarm(NoAlarm, now + METADATA_TTL, "alarm")]
       ELSE /\ record' = [record EXCEPT ![d] = DeleteAll(record[d])]
            /\ alarm' = [alarm EXCEPT ![d] = NoAlarm]
  /\ UNCHANGED <<calls, gate, now, ticks, web>>

IsoAdvance ==
  /\ \E d \in DoIds :
       /\ alarm[d].time > now
       /\ now' = alarm[d].time
  /\ UNCHANGED <<record, alarm, calls, gate, ticks, web>>

IsoNext ==
  \/ \E c \in CallIds : IsoStoreIssue(c)
  \/ \E c \in CallIds : IsoStoreGet(c)
  \/ \E c \in CallIds : IsoStoreWrite(c)
  \/ \E c \in CallIds : IsoRetrieveIssue(c)
  \/ \E c \in CallIds : IsoRetrieveGet(c)
  \/ \E c \in CallIds : IsoRetrievePut(c)
  \/ \E c \in CallIds : IsoStatusIssue(c)
  \/ \E c \in CallIds : IsoStatusGet(c)
  \/ \E d \in DoIds : IsoAlarm(d)
  \/ IsoAdvance

IsoSpec == IsoInit /\ [][IsoNext]_vars

\* --------------------------------------------------- the user's dashboard
\* The routes of a signed-in user: POST /api/secrets with its write of the
\* dashboard entry, and GET /api/dashboard/secrets with its live checks and
\* write-back, over the actors of two identifiers.  optionalAuth and
\* requireAuth load the user record at the start of the request; the route
\* writes that copy back at its end.  The session is taken to be valid here.
SECRETS_CAP == 100

\* the entries a user has from earlier secrets, newest first
OldId(i) == <<"old", ToString(i)>>
OldMeta(i) ==
  [id |-> OldId(i), status |-> "expired", createdAt |-> 0, expiresAt |-> 0,
   passwordProtected |-> FALSE, viewedAt |-> null, viewerCountry |-> undefined]
OldSecrets(n) == [i \in 1..n |-> OldMeta(n + 1 - i)]

\* the entry POST /api/secrets builds
Meta(id, rec) ==
  [id |-> id, status |-> "pending", createdAt |-> rec.createdAt,
   expiresAt |-> rec.expiresAt, passwordProtected |-> rec.passwordProtected,
   viewedAt |-> missing, viewerCountry |-> undefined]

\* unshift without the cap
UnshiftUncapped(list, meta) == <<meta>> \o list

\* push instead of unshift
PushCapped(list, meta) ==
  IF Len(list) + 1 > SECRETS_CAP
    THEN SubSeq(list \o <<meta>>, 1, SECRETS_CAP)
    ELSE list \o <<meta>>

\* user.secrets.unshift(meta), then slice(0, 100) when longer
Unshift(list, meta) ==
  IF Len(list) + 1 > SECRETS_CAP
    THEN SubSeq(<<meta>> \o list, 1, SECRETS_CAP)
    ELSE <<meta>> \o list

\* the live check that takes unknown for pending
EnrichKeepsOnUnknown(meta, live) ==
  IF live.status \notin {"pending", "unknown"}
    THEN [meta EXCEPT !.status = live.status, !.viewedAt = live.viewedAt,
                      !.viewerCountry = live.viewerCountry]
    ELSE meta

\* the entry the dashboard returns for a stored pending entry, given the
\* actor's answer
Enrich(meta, live) ==
  IF live.status \notin {"pending", "unknown"}
    THEN [meta EXCEPT !.status = live.status, !.viewedAt = live.viewedAt,
                      !.viewerCountry = live.viewerCountry]
  ELSE IF live.status = "unknown"
    THEN [meta EXCEPT !.status = "expired"]
    ELSE meta

hasUpdates(enriched, secrets) ==
  \E i \in 1..Len(secrets) :
    \/ enriched[i].status # secrets[i].status
    \/ enriched[i].viewedAt # secrets[i].viewedAt

DashBodies ==
  {Plain,
   [Plain EXCEPT !.id = OtherId],
   [Plain EXCEPT !.id = ShortId],
   [Plain EXCEPT !.id = BadCharId],
   [Plain EXCEPT !.encrypted = ""],
   [Plain EXCEPT !.encrypted = Oversized],
   [Plain EXCEPT !.salt = LongSalt]}
DashCreateRequests ==
  [body : DashBodies, user : {SignedIn}]
    \cup [body : DashBodies \ {[Plain EXCEPT !.id = OtherId]}, user : {NoUser}]

DashNoCall ==
  [op |-> "none", pc |-> "idle", id |-> << >>, record |-> NoRecord,
   ttl |-> 0, user |-> NoUser, enriched |-> << >>, i |-> 0,
   code |-> 0, out |-> NoResponse]

DashInit ==
  /\ record = [d \in DoIds |-> NoRecord]
  /\ alarm = [d \in DoIds |-> NoAlarm]
  /\ calls = [c \in CallIds |-> DashNoCall]
  /\ gate = [d \in DoIds |-> 0]
  /\ now = 0
  /\ ticks = 0
  /\ WebIdle

\* POST /api/secrets: csrfProtection, optionalAuth (which loads the user
\* record), the validation, up to the stub.fetch
DashCreateRequest(c, req, origin) ==
  /\ Fresh(c)
  /\ LET body == req.body
         user == IF req.user = NoUser THEN NoUser ELSE users[req.user.id]
         csrf == csrfProtection("POST", origin, OwnOrigin)
         bad == IF csrf # 0 THEN csrf ELSE ValidateCreate(body, user) IN
     calls' = [calls EXCEPT ![c] =
       IF bad # 0
         THEN [DashNoCall EXCEPT !.op = "store", !.pc = "done", !.code = bad]
         ELSE [DashNoCall EXCEPT !.op = "store", !.pc = "get",
                 !.id = body.id,
                 !.record = BuildRecord(body, user, now),
                 !.ttl = body.ttl,
                 !.user = user]]
  /\ UNCHANGED <<record, alarm, gate, now, ticks, web>>

DashCreateIssue(c) ==
  \E req \in DashCreateRequests, origin \in SampleOrigins :
    DashCreateRequest(c, req, origin)

\* the stub.fetch of the PUT: handleStore run whole, and the route on its
\* answer (409, or 201 and then the dashboard entry of a signed-in user)
DashStore(c) ==
  /\ calls[c].op = "store" /\ calls[c].pc = "get"
  /\ LET d == idFromName(calls[c].id) IN
       /\ gate[d] = 0
       /\ IF StoreConflict(record[d])
            THEN /\ calls' = [Finish(c, 409, NoResponse)
                                EXCEPT ![c].record = NoRecord]
                 /\ UNCHANGED <<record, alarm>>
            ELSE /\ record' = [record EXCEPT ![d] = calls[c].record]
                 /\ alarm' = [alarm EXCEPT
                      ![d] = SetAlarm(alarm[d], now + calls[c].ttl, "store")]
                 /\ calls' = IF calls[c].user = NoUser
                               THEN Finish(c, 201, NoResponse)
                               ELSE [calls EXCEPT ![c].pc = "meta"]
  /\ UNCHANGED <<gate, now, ticks, web>>

\* handleStore: storage.put rejects, or storage.setAlarm after it; the
\* route answers 500
DashStoreFail(c) ==
  /\ calls[c].op = "store" /\ calls[c].pc = "get"
  /\ LET d == idFromName(calls[c].id) IN
       /\ gate[d] = 0
       /\ ~StoreConflict(record[d])
       /\ \/ record' = record
          \/ record' = [record EXCEPT ![d] = calls[c].record]
  /\ calls' = Finish(c, 500, NoResponse)
  /\ UNCHANGED <<alarm, gate, now, ticks, web>>

\* the route after the 201 of the actor: the entry, and USERS.put
DashCreateMeta(c) ==
  /\ calls[c].op = "store" /\ calls[c].pc = "meta"
  /\ LET user == calls[c].user
         list == Unshift(user.secrets, Meta(calls[c].id, calls[c].record)) IN
     users' = [users EXCEPT ![user.id] = [user EXCEPT !.secrets = list]]
  /\ calls' = Finish(c, 201, NoResponse)
  /\ UNCHANGED <<record, alarm, gate, now, ticks, sessions, page>>

\* USERS.put rejects: the route throws
DashCreateMetaFail(c) ==
  /\ calls[c].op = "store" /\ calls[c].pc = "meta"
  /\ calls' = Finish(c, 500, NoResponse)
  /\ UNCHANGED <<record, alarm, gate, now, ticks, web>>

\* GET /api/dashboard/secrets: requireAuth loads the user record
DashLoadIssue(c) ==
  /\ Fresh(c)
  /\ \E u \in UserIds :
       calls' = [calls EXCEPT ![c] =
         [DashNoCall EXCEPT !.op = "dashboard", !.pc = "check",
                            !.user = users[u],
                            !.enriched = users[u].secrets]]
  /\ UNCHANGED <<record, alarm, gate, now, ticks, web>>

\* the stored pending entries whose live check has not come back yet; the
\* checks of different actors are independent, they are taken in list order
PendingAfter(list, i) ==
  {k \in (i + 1)..Len(list) : list[k].status = "pending"}
NextPending(list, i) ==
  CHOOSE k \in PendingAfter(list, i) :
    \A j \in PendingAfter(list, i) : k <= j

\* one live check: handleStatus of the entry's actor
DashLoadCheck(c) ==
  /\ calls[c].op = "dashboard" /\ calls[c].pc = "check"
  /\ PendingAfter(calls[c].user.secrets, calls[c].i) # {}
  /\ LET k == NextPending(calls[c].user.secrets, calls[c].i)
         meta == calls[c].user.secrets[k]
         d == idFromName(meta.id) IN
       /\ gate[d] = 0
       /\ calls' = [calls EXCEPT
            ![c].enriched[k] = Enrich(meta, StatusResponse(record[d])),
            ![c].i = k]
  /\ UNCHANGED <<record, alarm, gate, now, ticks, web>>

\* one live check fails: the stored entry is returned
DashLoadCheckFail(c) ==
  /\ calls[c].op = "dashboard" /\ calls[c].pc = "check"
  /\ PendingAfter(calls[c].user.secrets, calls[c].i) # {}
  /\ calls' = [calls EXCEPT
       ![c].i = NextPending(calls[c].user.secrets, calls[c].i)]
  /\ UNCHANGED <<record, alarm, gate, now, ticks, web>>

\* all checks are back: the write-back when something changed, the response
DashLoadWrite(c) ==
  /\ calls[c].op = "dashboard" /\ calls[c].pc = "check"
  /\ PendingAfter(calls[c].user.secrets, calls[c].i) = {}
  /\ LET user == calls[c].user
         enriched == calls[c].enriched IN
       /\ users' = IF hasUpdates(enriched, user.secrets)
                     THEN [users EXCEPT
                             ![user.id] = [user EXCEPT !.secrets = enriched]]
                     ELSE users
       /\ calls' = Finish(c, 200, [secrets |-> enriched])
  /\ UNCHANGED <<record, alarm, gate, now, ticks, sessions, page>>

\* the write-back rejects: the response is sent all the same
DashLoadWriteFail(c) ==
  /\ calls[c].op = "dashboard" /\ calls[c].pc = "check"
  /\ PendingAfter(calls[c].user.secrets, calls[c].i) = {}
  /\ hasUpdates(calls[c].enriched, calls[c].user.secrets)
  /\ calls' = Finish(c, 200, [secrets |-> calls[c].enriched])
  /\ UNCHANGED <<record, alarm, gate, now, ticks, web>>

\* GET /api/secrets/:id of a recipient, handled whole (handleRetrieve holds
\* the actor's input gate from its get to its setAlarm)
DashRetrieve(id) ==
  /\ LET d == idFromName(id) IN
       /\ gate[d] = 0
       /\ ~RetrieveNotFound(record[d])
       /\ record' = [record EXCEPT
                       ![d] = BurnRecord(record[d], ViewerCountry("US"), now)]
       /\ alarm' = [alarm EXCEPT
                      ![d] = SetAlarm(alarm[d], now + METADATA_TTL, "retrieve")]
  /\ UNCHANGED <<calls, gate, now, ticks, web>>

\* the clock: the time passes until an alarm is due
DashAdvance ==
  /\ ticks < MaxTicks
  /\ \E d \in DoIds :
       /\ alarm[d].time > now
       /\ now' = alarm[d].time
  /\ ticks' = ticks + 1
  /\ UNCHANGED <<record, alarm, calls, gate, web>>

DashNext ==
  \/ \E c \in CallIds : DashCreateIssue(c)
  \/ \E c \in CallIds : DashStore(c)
  \/ \E c \in CallIds : DashStoreFail(c)
  \/ \E c \in CallIds : DashCreateMeta(c)
  \/ \E c \in CallIds : DashCreateMetaFail(c)
  \/ \E c \in CallIds : DashLoadIssue(c)
  \/ \E c \in CallIds : DashLoadCheck(c)
  \/ \E c \in CallIds : DashLoadCheckFail(c)
  \/ \E c \in CallIds : DashLoadWrite(c)
  \/ \E c \in CallIds : DashLoadWriteFail(c)
  \/ \E id \in IsoIds : DashRetrieve(id)
  \/ \E d \in DoIds : IsoAlarm(d)
  \/ DashAdvance

DashSpec == DashInit /\ [][DashNext]_vars

\* the same routes for a user whose list is one entry short of its cap
FullDashInit ==
  /\ record = [d \in DoIds |-> NoRecord]
  /\ alarm = [d \in DoIds |-> NoAlarm]
  /\ calls = [c \in CallIds |-> DashNoCall]
  /\ gate = [d \in DoIds |-> 0]
  /\ now = 0
  /\ ticks = 0
  /\ users = [u \in UserIds |->
                [id |-> u, secrets |-> OldSecrets(SECRETS_CAP - 1)]]
  /\ sessions = << >>
  /\ page = NoPage

FullDashSpec == FullDashInit /\ [][DashNext]_vars

\* ------------------------------------------------------- the reveal page
\* frontend/reveal.js in the recipient's browser, with the routes and the
\* actor of the identifier behind it.  A sender stores the secret, another
\* visitor may retrieve it first, and the timers run.
MaxAttempts == 2

GoodKey == "key"
KeyStrings == {"", GoodKey, "otherkey"}
RightPassword == "password"
Passwords == {"", RightPassword, "guess"}

\* window.location.pathname.match(/^\/s\/([A-Za-z0-9_-]{22})$/)
pathMatch(id) ==
  /\ DOMAIN id = 1..22
  /\ \A i \in DOMAIN id : id[i] \in Base64Url

\* the #password-section of the page is shown by the script only (line 59)
PasswordSectionAtLoad == FALSE

\* the script's variables and the elements it shows, after the DOM refs
LoadedPage(id, key) ==
  [view |-> "checking", secretId |-> id, keyString |-> key,
   encryptedData |-> NoResponse, attempts |-> 0, isPasswordProtected |-> FALSE,
   section |-> PasswordSectionAtLoad, password |-> "", disabled |-> FALSE,
   status |-> 0, fetching |-> {}, fetched |-> {}]

\* showError
showError(p) == [p EXCEPT !.view = "error"]

\* !!statusData.passwordProtected
Flag(statusData) ==
  IF "passwordProtected" \in DOMAIN statusData
    THEN statusData.passwordProtected
    ELSE FALSE

\* SecretCrypto.decryptWithPassword and SecretCrypto.decrypt: whether the
\* blob decrypts with the key of the link and the password of the field
Decrypts(p) ==
  IF p.encryptedData.passwordProtected
    THEN p.keyString = GoodKey /\ p.password = RightPassword
    ELSE p.keyString = GoodKey

\* the fetch on every call of handleReveal
MustFetchAlways(p) == TRUE

\* handleReveal, line 92: the blob is fetched when none is cached
MustFetch(p) == p.encryptedData = NoResponse

\* handleReveal from "Decrypt" on, the blob being in encryptedData
Decrypt(p) ==
  IF p.encryptedData.passwordProtected /\ ~Decrypts(p)
    THEN [p EXCEPT !.attempts = @ + 1, !.disabled = FALSE, !.password = ""]
  ELSE IF Decrypts(p)
    THEN [p EXCEPT !.view = "revealed"]
    ELSE showError(p)

\* the requests of the sender, of the other visitor and of the page
PageCallIds == 1..(MaxCalls + 1)

PageInit ==
  /\ record = NoRecord
  /\ alarm = NoAlarm
  /\ calls = [c \in PageCallIds |-> NoCall]
  /\ gate = 0
  /\ now = 0
  /\ ticks = 0
  /\ WebIdle

\* the sender's POST /api/secrets, the first request of the run
PageStoreIssue(c) ==
  /\ c = 1
  /\ \E body \in {Plain, [Protected EXCEPT !.ttl = 3600]} :
       StoreRequest(c, [body |-> body, user |-> NoUser], OwnOrigin)

\* the page's Retrieve requests
PageFetched == IF page = NoPage THEN {} ELSE page.fetched

\* another visitor's GET /api/secrets/:id, once
PageOtherRetrieve(c) ==
  /\ record # NoRecord
  /\ \A d \in PageCallIds : calls[d].op = "retrieve" => d \in PageFetched
  /\ RetrieveRequest(c, GoodId, "US", undefined)

\* the page is opened: the link is parsed and the status is fetched
PageOpen(c) ==
  /\ page = NoPage
  /\ \E id \in Ids, key \in KeyStrings :
       IF ~pathMatch(id) \/ key = ""
         THEN /\ page' = showError(LoadedPage(id, key))
              /\ calls' = calls
         ELSE /\ Fresh(c)
              /\ calls' = [calls EXCEPT ![c] = StatusCall(id)]
              /\ page' = [LoadedPage(id, key) EXCEPT !.status = c]
  /\ UNCHANGED <<record, alarm, gate, now, ticks, users, sessions>>

\* the status response arrives
PageStatus ==
  /\ page # NoPage /\ page.view = "checking"
  /\ calls[page.status].pc = "done"
  /\ LET statusData == calls[page.status].out IN
     page' = IF statusData.status \in {"viewed", "expired", "unknown"}
               THEN showError(page)
               ELSE [page EXCEPT
                       !.view = "pre",
                       !.isPasswordProtected = Flag(statusData),
                       !.section = page.section \/ Flag(statusData)]
  /\ UNCHANGED <<record, alarm, calls, gate, now, ticks, users, sessions>>

\* the status fetch rejects
PageStatusFail ==
  /\ page # NoPage /\ page.view = "checking"
  /\ page' = showError(page)
  /\ UNCHANGED <<record, alarm, calls, gate, now, ticks, users, sessions>>

\* the recipient types into the password field when it is shown, and clicks
\* the button (when enabled) or presses Enter in the field: handleReveal up
\* to its fetch, or to its end when the blob is cached
PageReveal(c) ==
  /\ page # NoPage /\ page.view = "pre"
  /\ page.attempts < MaxAttempts
  /\ \E via \in {"click", "enter"},
        typed \in (IF page.section THEN Passwords ELSE {page.password}) :
       /\ via = "click" => ~page.disabled
       /\ via = "enter" => page.section
       /\ LET p == [page EXCEPT !.password = typed] IN
          IF p.isPasswordProtected /\ p.password = ""
            THEN /\ page' = p
                 /\ calls' = calls
          ELSE IF MustFetch(p)
            THEN /\ Fresh(c)
                 /\ calls' = [calls EXCEPT
                      ![c] = RetrieveCall(p.secretId, "US", undefined)]
                 /\ page' = [p EXCEPT !.disabled = TRUE,
                                      !.fetching = @ \cup {c},
                                      !.fetched = @ \cup {c}]
            ELSE /\ page' = Decrypt([p EXCEPT !.disabled = TRUE])
                 /\ calls' = calls
  /\ UNCHANGED <<record, alarm, gate, now, ticks, users, sessions>>

\* the response of a Retrieve arrives: handleReveal from line 94 on
PageBlob ==
  /\ page # NoPage
  /\ \E c \in page.fetching :
       /\ calls[c].pc = "done"
       /\ LET p == [page EXCEPT !.fetching = @ \ {c}] IN
          page' = IF calls[c].code # 200
                    THEN showError(p)
                    ELSE Decrypt([p EXCEPT !.encryptedData = calls[c].out])
  /\ UNCHANGED <<record, alarm, calls, gate, now, ticks, users, sessions>>

PageNext ==
  \/ \E c \in PageCallIds : PageStoreIssue(c)
  \/ \E c \in PageCallIds : StoreGet(c)
  \/ \E c \in PageCallIds : StoreWrite(c)
  \/ \E c \in PageCallIds : PageOtherRetrieve(c)
  \/ \E c \in PageCallIds : RetrieveGet(c)
  \/ \E c \in PageCallIds : RetrievePut(c)
  \/ \E c \in PageCallIds : StatusGet(c)
  \/ \E c \in PageCallIds : PageOpen(c)
  \/ PageStatus
  \/ PageStatusFail
  \/ \E c \in PageCallIds : PageReveal(c)
  \/ PageBlob
  \/ Alarm
  \/ Advance

PageSpec == PageInit /\ [][PageNext]_vars

\* ------------------------------------------------- sessions and sign-in
\* routes/auth.ts and middleware/auth.ts over the SESSIONS namespace, which
\* holds the sessions under their id and the OAuth states under
\* oauth_state:<state>, each with an expirationTtl, and over USERS.
SESSION_TTL == 7 * 24 * 60 * 60
STATE_TTL == 300

\* generateRandomId: a callback's session id, and the state values that
\* /api/auth/google draws, each once
SessionKey(c) == <<"", ToString(c)>>
StateValues == {"a", "b"}
StateKey(state) == <<"oauth_state:", state>>
AuthKeys ==
  {SessionKey(c) : c \in CallIds} \cup {StateKey(st) : st \in StateValues}

\* the cookie header: no session cookie, or session=<key> with the id of the
\* first session or with the key of an OAuth state
NoCookie == << >>
Cookies == {NoCookie, SessionKey(1), StateKey("b")}

\* a key whose value was deleted or has expired
Gone == [kind |-> "gone"]

\* SESSIONS.get: null unless the key has a value
KvNull(entry) == entry.kind \in {"absent", "gone"}

\* the session check that never finds a session expired
ExpiredNever(sessionData, t) == FALSE

\* new Date(sessionData.expiresAt) < new Date(); the value '1' of an OAuth
\* state has no expiresAt, and an invalid date is not before any date
Expired(sessionData, t) ==
  sessionData.kind = "session" /\ sessionData.expiresAt < t

\* the pointer user:<userId> and the record it names; null when the session
\* data has no userId or the account has no record
ResolveUser(sessionData) ==
  IF sessionData.kind = "session" /\ users[sessionData.userId] # NoEntry
    THEN users[sessionData.userId]
    ELSE NoUser

\* requireAuth without its last check
RequireAuthNoUserCheck(user) == 200

\* requireAuth, from the resolved user on: 401 unless there is one
RequireAuth(user) == IF user = NoUser THEN 401 ELSE 200

AuthNoCall ==
  [op |-> "none", pc |-> "idle", kind |-> "none", cookie |-> NoCookie,
   state |-> undefined, session |-> NoEntry, at |-> null, user |-> NoUser,
   passed |-> FALSE, code |-> 0, out |-> "none"]

AuthInit ==
  /\ record = NoRecord
  /\ alarm = NoAlarm
  /\ calls = [c \in CallIds |-> AuthNoCall]
  /\ gate = 0
  /\ now = 0
  /\ ticks = 0
  /\ users = [u \in UserIds |-> NoEntry]
  /\ sessions = [k \in AuthKeys |-> NoEntry]
  /\ page = NoPage

AuthUnchanged == UNCHANGED <<record, alarm, gate, now, ticks, page>>

\* GET /api/auth/google: a new state is stored for five minutes
AuthGoogle ==
  /\ \E st \in StateValues :
       /\ sessions[StateKey(st)] = NoEntry
       /\ sessions' = [sessions EXCEPT ![StateKey(st)] =
                         [kind |-> "state", expires |-> now + STATE_TTL]]
  /\ UNCHANGED <<calls, users>>
  /\ AuthUnchanged

\* GET /api/auth/callback up to the state validation
CallbackIssue(c) ==
  /\ Fresh(c)
  /\ \E error \in BOOLEAN, code \in BOOLEAN,
        state \in StateValues \cup {undefined} :
       calls' = [calls EXCEPT ![c] =
         IF error
           THEN [AuthNoCall EXCEPT !.op = "callback", !.pc = "done",
                                   !.code = 302, !.out = "access_denied"]
         ELSE IF ~code \/ state = undefined
           THEN [AuthNoCall EXCEPT !.op = "callback", !.pc = "done",
                                   !.code = 302, !.out = "invalid_request"]
           ELSE [AuthNoCall EXCEPT !.op = "callback", !.pc = "state",
                                   !.state = state]]
  /\ UNCHANGED <<users, sessions>>
  /\ AuthUnchanged

\* SESSIONS.get of the state
CallbackState(c) ==
  /\ calls[c].op = "callback" /\ calls[c].pc = "state"
  /\ calls' = IF KvNull(sessions[StateKey(calls[c].state)])
                THEN [calls EXCEPT ![c].pc = "done", ![c].code = 302,
                                   ![c].out = "invalid_state"]
                ELSE [calls EXCEPT ![c].pc = "delete", ![c].passed = TRUE]
  /\ UNCHANGED <<users, sessions>>
  /\ AuthUnchanged

\* SESSIONS.delete of the used state
CallbackDelete(c) ==
  /\ calls[c].op = "callback" /\ calls[c].pc = "delete"
  /\ sessions' = [sessions EXCEPT ![StateKey(calls[c].state)] = Gone]
  /\ calls' = [calls EXCEPT ![c].pc = "token"]
  /\ UNCHANGED users
  /\ AuthUnchanged

\* the token exchange and the userinfo request at Google
CallbackToken(c) ==
  /\ calls[c].op = "callback" /\ calls[c].pc = "token"
  /\ \E result \in {"ok", "token_exchange_failed", "userinfo_failed"} :
       calls' = IF result = "ok"
                  THEN [calls EXCEPT ![c].pc = "user"]
                  ELSE [calls EXCEPT ![c].pc = "done", ![c].code = 302,
                                     ![c].out = result]
  /\ UNCHANGED <<users, sessions>>
  /\ AuthUnchanged

\* the user record is created or updated
CallbackUser(c) ==
  /\ calls[c].op = "callback" /\ calls[c].pc = "user"
  /\ \E u \in UserIds :
       /\ users' = [users EXCEPT ![u] =
                      IF users[u] = NoEntry THEN NewUser(u) ELSE users[u]]
       /\ calls' = [calls EXCEPT ![c].pc = "session", ![c].user = users'[u]]
  /\ UNCHANGED sessions
  /\ AuthUnchanged

\* the session is stored for seven days; the cookie, the redirect
CallbackSession(c) ==
  /\ calls[c].op = "callback" /\ calls[c].pc = "session"
  /\ sessions' = [sessions EXCEPT ![SessionKey(c)] =
       [kind |-> "session", userId |-> calls[c].user.id, createdAt |-> now,
        expiresAt |-> now + SESSION_TTL, expires |-> now + SESSION_TTL]]
  /\ calls' = [calls EXCEPT ![c].pc = "done", ![c].code = 302,
                            ![c].out = "/dashboard",
                            ![c].cookie = SessionKey(c)]
  /\ UNCHANGED users
  /\ AuthUnchanged

\* POST /api/auth/logout behind csrfProtection
Logout ==
  /\ \E cookie \in AuthKeys, origin \in SampleOrigins :
       /\ csrfProtection("POST", origin, OwnOrigin) = 0
       /\ ~KvNull(sessions[cookie])
       /\ sessions' = [sessions EXCEPT ![cookie] = Gone]
  /\ UNCHANGED <<calls, users>>
  /\ AuthUnchanged

\* a request to a route behind requireAuth or optionalAuth, or GET
\* /api/auth/me, up to its SESSIONS.get
AuthIssue(c) ==
  /\ Fresh(c)
  /\ \E kind \in {"require", "optional", "me"}, cookie \in Cookies :
       calls' = [calls EXCEPT ![c] =
         IF cookie = NoCookie
           THEN [AuthNoCall EXCEPT
                   !.op = "auth", !.kind = kind, !.pc = "done",
                   !.code = IF kind = "require" THEN 401 ELSE 200]
           ELSE [AuthNoCall EXCEPT !.op = "auth", !.kind = kind,
                                   !.pc = "session", !.cookie = cookie]]
  /\ UNCHANGED <<users, sessions>>
  /\ AuthUnchanged

\* SESSIONS.get of the cookie's id, and the expiry check
AuthSession(c) ==
  /\ calls[c].op = "auth" /\ calls[c].pc = "session"
  /\ LET sessionData == sessions[calls[c].cookie]
         read == [calls EXCEPT ![c].session = sessionData, ![c].at = now]
         refused == IF calls[c].kind = "require" THEN 401 ELSE 200 IN
     calls' =
       IF KvNull(sessionData)
         THEN [read EXCEPT ![c].pc = "done", ![c].code = refused]
       ELSE IF Expired(sessionData, now)
         THEN IF calls[c].kind = "me"
                THEN [read EXCEPT ![c].pc = "done", ![c].code = 200]
                ELSE [read EXCEPT ![c].pc = "delete"]
         ELSE [read EXCEPT ![c].pc = "user"]
  /\ UNCHANGED <<users, sessions>>
  /\ AuthUnchanged

\* SESSIONS.delete of the expired session
AuthDelete(c) ==
  /\ calls[c].op = "auth" /\ calls[c].pc = "delete"
  /\ sessions' = [sessions EXCEPT ![calls[c].cookie] = Gone]
  /\ calls' = [calls EXCEPT
       ![c].pc = "done",
       ![c].code = IF calls[c].kind = "require" THEN 401 ELSE 200]
  /\ UNCHANGED users
  /\ AuthUnchanged

\* SESSIONS.delete rejects: the middleware throws
AuthDeleteFail(c) ==
  /\ calls[c].op = "auth" /\ calls[c].pc = "delete"
  /\ calls' = [calls EXCEPT ![c].pc = "done", ![c].code = 500]
  /\ UNCHANGED <<users, sessions>>
  /\ AuthUnchanged

\* the user is resolved; requireAuth refuses a request without one
AuthUser(c) ==
  /\ calls[c].op = "auth" /\ calls[c].pc = "user"
  /\ LET user == ResolveUser(calls[c].session) IN
     calls' = [calls EXCEPT
       ![c].pc = "done",
       ![c].code = IF calls[c].kind = "require" THEN RequireAuth(user)
                                                  ELSE 200,
       ![c].user = IF calls[c].kind = "require" /\ RequireAuth(user) # 200
                     THEN NoUser ELSE user]
  /\ UNCHANGED <<users, sessions>>
  /\ AuthUnchanged

\* the namespace drops a value whose expirationTtl has run out
KvExpire ==
  /\ \E k \in AuthKeys :
       /\ ~KvNull(sessions[k])
       /\ sessions[k].expires <= now
       /\ sessions' = [sessions EXCEPT ![k] = Gone]
  /\ UNCHANGED <<calls, users>>
  /\ AuthUnchanged

\* the clock: the time passes until a value expires, or a second longer
AuthAdvance ==
  /\ ticks < MaxTicks
  /\ \E k \in AuthKeys, later \in {0, 1} :
       /\ ~KvNull(sessions[k])
       /\ sessions[k].expires + later > now
       /\ now' = sessions[k].expires + later
  /\ ticks' = ticks + 1
  /\ UNCHANGED <<record, alarm, calls, gate, web>>

\* the sign-in is the first request of the run; the requests after it carry
\* a cookie
AuthNext ==
  \/ AuthGoogle
  \/ CallbackIssue(1)
  \/ \E c \in CallIds : CallbackState(c)
  \/ \E c \in CallIds : CallbackDelete(c)
  \/ \E c \in CallIds : CallbackToken(c)
  \/ \E c \in CallIds : CallbackUser(c)
  \/ \E c \in CallIds : CallbackSession(c)
  \/ Logout
  \/ \E c \in CallIds : AuthIssue(c)
  \/ \E c \in CallIds : AuthSession(c)
  \/ \E c \in CallIds : AuthDelete(c)
  \/ \E c \in CallIds : AuthDeleteFail(c)
  \/ \E c \in CallIds : AuthUser(c)
  \/ KvExpire
  \/ AuthAdvance

AuthSpec == AuthInit /\ [][AuthNext]_vars

\* the callbacks of several sign-ins
SignInNext ==
  \/ AuthGoogle
  \/ \E c \in CallIds : CallbackIssue(c)
  \/ \E c \in CallIds : CallbackState(c)
  \/ \E c \in CallIds : CallbackDelete(c)
  \/ \E c \in CallIds : CallbackToken(c)
  \/ \E c \in CallIds : CallbackUser(c)
  \/ \E c \in CallIds : CallbackSession(c)
  \/ KvExpire
  \/ AuthAdvance

SignInSpec == AuthInit /\ [][SignInNext]_vars

\* Scheduling: a due alarm is delivered (alarms run at least once), the clock
\* goes on, and a request that reached the actor is served: each awaited
\* storage operation or body read settles, one way or the other.
Fairness ==
  /\ WF_vars(Alarm)
  /\ WF_vars(Advance)
  /\ \A c \in CallIds :
       /\ WF_vars(StoreGet(c))
       /\ WF_vars(StoreWrite(c) \/ StorePutFail(c) \/ StoreSetAlarmFail(c))
       /\ WF_vars(RetrieveGet(c))
       /\ WF_vars(RetrievePut(c) \/ RetrievePutFail(c)
                    \/ RetrieveSetAlarmFail(c))
       /\ WF_vars(StatusGet(c))

FairSpec == Spec /\ Fairness

\* ---------------------------------------------------------------- claims
Stores == {c \in CallIds : calls[c].op = "store"}
Retrieves == {c \in CallIds : calls[c].op = "retrieve"}
Statuses == {c \in CallIds : calls[c].op = "status"}
Done(c) == calls[c].pc = "done"

\* no alarm can have fired yet: every alarm is set at least a ttl ahead
BeforeAnyTimer == \A t \in ALLOWED_TTLS : now < t

\* the Retrieve calls that were issued while the record was Pending
IssuedOnPending == {c \in Retrieves : calls[c].atStart = "pending"}

\* one Store created the record, the Retrieves of the run, two or more, were
\* all issued while it was Pending, all of them are answered, none met a
\* storage failure, and the record's ttl has not passed
ConcurrentRetrievesDone ==
  /\ Cardinality(Stores) = 1
  /\ \A s \in Stores : calls[s].code = 201
  /\ Retrieves = IssuedOnPending
  /\ Cardinality(IssuedOnPending) >= 2
  /\ \A c \in IssuedOnPending : Done(c) /\ calls[c].code # 500
  /\ record # NoRecord
  /\ now < record.expiresAt

\* C1: at most one read. Of N >= 2 Retrieve calls issued concurrently on a
\* Pending record, exactly one receives the payload the Store supplied and
\* the N-1 others receive NotFound (404).
AtMostOneRead ==
  ConcurrentRetrievesDone =>
    \E w \in IssuedOnPending :
      /\ calls[w].code = 200
      /\ \E s \in Stores : calls[w].out = RetrieveResponse(calls[s].record)
      /\ \A c \in IssuedOnPending \ {w} :
           calls[c].code = 404 /\ calls[c].out = NoResponse

AtMostOneReadWitness ==
  /\ ConcurrentRetrievesDone
  /\ \E c \in IssuedOnPending : calls[c].code = 404

\* C2: no overwrite. A Store whose existence check finds a record (Pending,
\* Viewed or Expired) is answered 409 and leaves the record and the alarm as
\* they were.
NoOverwrite ==
  [][\A c \in CallIds :
       (StoreGet(c) /\ record # NoRecord) =>
         /\ calls'[c].pc = "done"
         /\ calls'[c].code = 409
         /\ record' = record
         /\ alarm' = alarm]_vars

NoOverwriteWitness ==
  /\ record # NoRecord
  /\ record.status = "viewed"
  /\ \E c \in Stores : calls[c].code = 409

\* C3: Store-vs-Store race. While no timer has fired and nothing was
\* retrieved, of the Store calls that reached the actor exactly one is
\* answered 201 and every other 409, and the record is the one that call
\* supplied.
StoreRaceOneCreated ==
  LET reached == {c \in Stores : calls[c].code \notin {400, 403}} IN
  ( /\ BeforeAnyTimer
    /\ Retrieves = {}
    /\ Cardinality(reached) >= 2
    /\ \A c \in reached : Done(c) /\ calls[c].code # 500 )
  => \E w \in reached :
       /\ calls[w].code = 201
       /\ record = calls[w].record
       /\ \A c \in reached \ {w} : calls[c].code = 409

\* C4: status transitions are one-way. The only changes of a record's status
\* are Pending to Viewed and Pending to Expired.
StatusMonotonic ==
  [][(record # NoRecord /\ record' # NoRecord
        /\ record'.status # record.status) =>
       (record.status = "pending"
          /\ record'.status \in {"viewed", "expired"})]_vars

\* C5: the persisted payload is non-empty exactly when the status is Pending,
\* and the salt is absent whenever the status is not Pending.
PayloadIffPending ==
  record # NoRecord =>
    /\ (record.encrypted # "") <=> (record.status = "pending")
    /\ record.status # "pending" => record.salt = undefined

PayloadIffPendingWitness ==
  /\ record # NoRecord
  /\ record.status = "expired"
  /\ record.passwordProtected
  /\ record.salt = undefined

\* C6: burn clears payload. Right after the step in which a Retrieve is
\* answered 200, the persisted record has an empty payload, no salt, status
\* Viewed, a viewedAt, and the viewer country that Retrieve passed.
BurnClearsPayload ==
  [][\A c \in Retrieves :
       (calls[c].code = 0 /\ calls'[c].code = 200) =>
         /\ record' # NoRecord
         /\ record'.encrypted = ""
         /\ record'.salt = undefined
         /\ record'.status = "viewed"
         /\ record'.viewedAt # null
         /\ record'.viewerCountry = calls[c].country]_vars

BurnClearsPayloadWitness ==
  /\ \E c \in Retrieves : calls[c].code = 200 /\ calls[c].country = "US"
  /\ record # NoRecord
  /\ record.viewerCountry = "US"

\* C7: the persisted viewedAt is set exactly when the status is Viewed.
ViewedAtIffViewed ==
  record # NoRecord =>
    ((record.viewedAt # null) <=> (record.status = "viewed"))

ViewedAtIffViewedWitness ==
  /\ record # NoRecord
  /\ record.status = "viewed"
  /\ record.viewedAt # null

\* C8: Phase-1 idempotence. When the alarm that Store set for the ttl fires
\* on a record that a Retrieve has burned, the record stays as it is.
Phase1Idempotent ==
  [][(Alarm /\ alarm.by = "store"
        /\ record # NoRecord /\ record.status = "viewed") =>
       record' = record]_vars

\* C9: Phase 2 always deletes. An alarm that fires on a Viewed or Expired
\* record removes the record, and a Status that finds no record answers
\* {status: unknown}.
Phase2AlwaysDeletes ==
  [][/\ (Alarm /\ record # NoRecord
           /\ record.status \in {"viewed", "expired"}) =>
          (record' = NoRecord /\ alarm' = NoAlarm)
     /\ \A c \in CallIds :
          (StatusGet(c) /\ record = NoRecord) =>
            (calls'[c].code = 200
               /\ calls'[c].out = [status |-> "unknown"])]_vars

Phase2AlwaysDeletesWitness ==
  /\ record = NoRecord
  /\ alarm = NoAlarm
  /\ \E s \in Stores : calls[s].code = 201
  /\ \E r \in Retrieves : calls[r].code = 200
  /\ \E c \in Statuses : Done(c) /\ calls[c].out = [status |-> "unknown"]

\* C10: Phase 1 on an unviewed secret. The alarm that fires on a Pending
\* record makes it Expired with payload and salt cleared and the metadata
\* kept; from then on the record stays as it is until it is deleted, every
\* Status reports expired and every Retrieve is answered 404.
Phase1Expires ==
  [][/\ (Alarm /\ record # NoRecord /\ record.status = "pending") =>
          record' = [record EXCEPT !.encrypted = "", !.salt = undefined,
                                   !.status = "expired"]
     /\ (record # NoRecord /\ record.status = "expired") =>
          /\ record' = record \/ (Alarm /\ record' = NoRecord)
          /\ \A c \in CallIds :
               /\ StatusGet(c) => calls'[c].out.status = "expired"
               /\ RetrieveGet(c) => calls'[c].code = 404]_vars

\* C11: no stale state on access. A Retrieve that reaches the record at or
\* after its expiresAt never returns the payload, and a Status that reaches
\* it at or after its expiresAt never reports pending, even when the alarm
\* has not fired yet.
NoStaleOnAccess ==
  [][\A c \in CallIds :
       (record # NoRecord /\ now >= record.expiresAt) =>
         /\ RetrieveGet(c) => calls'[c].code = 404
         /\ StatusGet(c) => calls'[c].out.status # "pending"]_vars

\* the Retrieve and Status calls that were issued while the record was in one
\* of the given statuses
RetrievesIssuedOn(S) == {c \in Retrieves : calls[c].atStart \in S}
StatusesIssuedOn(S) == {c \in Statuses : calls[c].atStart \in S}

\* C12: uniform NotFound. A Retrieve that finds no record (never created, or
\* deleted by Phase 2), a Viewed record or an Expired record is answered
\* with the same response in each case: 404 and the one fixed body, with no
\* write to the record or the alarm.
UniformNotFound ==
  [][\A c \in CallIds :
       (RetrieveGet(c)
          /\ (record = NoRecord \/ record.status \in {"viewed", "expired"}))
       => /\ calls'[c].pc = "done"
          /\ calls'[c].code = 404
          /\ calls'[c].out = NoResponse
          /\ record' = record
          /\ alarm' = alarm]_vars

\* a Retrieve issued before the record was ever stored and a Retrieve issued
\* on the Expired record were both answered 404
UniformNotFoundWitness ==
  /\ \E c \in RetrievesIssuedOn({"absent"}) : Done(c) /\ calls[c].code = 404
  /\ \E c \in RetrievesIssuedOn({"expired"}) : Done(c) /\ calls[c].code = 404
  /\ \E s \in Stores : calls[s].code = 201

\* a Store call whose storage.put completed
StoreWrote(s) ==
  /\ calls[s].op = "store"
  /\ Done(s)
  /\ calls[s].code \in {201, 500}
  /\ calls[s].record # NoRecord

\* no Store has written a record for the identifier so far
NeverCreated == \A s \in CallIds : ~StoreWrote(s)

\* a record was created, every alarm that was set has fired and the last one
\* ran the cleanup, and no Store has written since
DeletedByPhase2 ==
  /\ alarm = NoAlarm
  /\ \E s \in Stores : calls[s].code = 201
  /\ \A s \in Stores : calls[s].code # 500

\* C13: indistinguishability of absence. A Status on an identifier that was
\* never created and a Status on an identifier whose record Phase 2 deleted
\* are answered alike: 200 with {status: unknown} and nothing else.
AbsenceIndistinguishable ==
  [][\A c \in CallIds :
       (StatusGet(c) /\ (NeverCreated \/ DeletedByPhase2)) =>
         /\ calls'[c].code = 200
         /\ calls'[c].out = [status |-> "unknown"]]_vars

\* a Status issued before any Store and a Status issued on the Viewed or
\* Expired record and served after its deletion were both answered unknown
AbsenceIndistinguishableWitness ==
  /\ DeletedByPhase2
  /\ \E c \in StatusesIssuedOn({"absent"}) :
       /\ Done(c) /\ calls[c].out = [status |-> "unknown"]
       /\ \A s \in Stores : c < s
  /\ \E c \in StatusesIssuedOn({"viewed", "expired"}) :
       Done(c) /\ calls[c].out = [status |-> "unknown"]

StatusReadOnly ==
  [][\A c \in CallIds :
       StatusGet(c) =>
         /\ record' = record
         /\ alarm' = alarm
         /\ record # NoRecord =>
              calls'[c].out = [status |-> record.status,
                               createdAt |-> record.createdAt,
                               expiresAt |-> record.expiresAt,
                               viewedAt |-> record.viewedAt,
                               viewerCountry |-> record.viewerCountry]]_vars

\* a Status reported pending, and the Retrieve after it still got the payload
StatusReadOnlyWitness ==
  /\ Cardinality(Stores) = 1
  /\ \E c \in Statuses : Done(c) /\ calls[c].out.status = "pending"
  /\ \E r \in Retrieves : calls[r].code = 200 /\ calls[r].out.encrypted = "P"

\* C16: blank slate after deletion. Once Phase 2 has deleted the record, a
\* new Store for the identifier passes the existence check, is answered 201,
\* and the record it leaves is the one it supplied: Pending, viewedAt null,
\* no viewerCountry, its own payload, salt and timestamps.
BlankSlate ==
  [][\A c \in CallIds :
       DeletedByPhase2 =>
         /\ StoreGet(c) => calls'[c].pc = "json"
         /\ StoreWrite(c) =>
              /\ calls'[c].code = 201
              /\ record'.status = "pending"
              /\ record'.viewedAt = null
              /\ record'.viewerCountry = undefined
              /\ record'.encrypted = calls[c].record.encrypted
              /\ record'.encrypted # ""
              /\ record'.salt = calls[c].record.salt
              /\ record'.createdAt = calls[c].record.createdAt
              /\ record'.expiresAt = calls[c].record.expiresAt
              /\ alarm'.time = now + calls[c].ttl]_vars

\* a record was created, retrieved (so it carried viewedAt and a country) and
\* deleted, and a Store issued after the deletion created a Pending record
BlankSlateWitness ==
  /\ \E s \in Stores : calls[s].code = 201 /\ calls[s].record.createdAt = 0
  /\ \E r \in Retrieves : calls[r].code = 200 /\ calls[r].country = "US"
  /\ \E s \in Stores :
       /\ calls[s].code = 201
       /\ calls[s].record.createdAt >= METADATA_TTL
       /\ record = calls[s].record
  /\ record.status = "pending"
  /\ record.viewerCountry = undefined

\* C17: bounded lifetime. Under fair delivery of the alarms, a record that
\* exists is eventually deleted, and a payload that is stored is eventually
\* cleared.
BoundedLifetime ==
  /\ (record # NoRecord) ~> (record = NoRecord)
  /\ (record # NoRecord /\ record.encrypted # "")
       ~> (record = NoRecord \/ record.encrypted = "")

\* C18: round trip. While no timer has fired, for every Store answered 201
\* a Retrieve answered 200 returns exactly the payload, salt and
\* passwordProtected flag that Store supplied, with the createdAt and
\* expiresAt of the record it built.
RoundTrip ==
  BeforeAnyTimer =>
    \A s \in Stores, r \in Retrieves :
      (calls[s].code = 201 /\ calls[r].code = 200) =>
        calls[r].out =
          [encrypted |-> calls[s].record.encrypted,
           salt |-> calls[s].record.salt,
           passwordProtected |-> calls[s].record.passwordProtected,
           createdAt |-> calls[s].record.createdAt,
           expiresAt |-> calls[s].record.expiresAt]

\* C19: the burn stands. A failure of setAlarm after the put of the burn
\* leaves the burned record, and as long as the identifier's record is the
\* Viewed one nothing gives it a payload again: it stays Viewed with payload
\* and salt cleared until it is deleted, and every Retrieve is answered 404.
BurnStands ==
  [][/\ \A c \in CallIds :
          RetrieveSetAlarmFail(c) =>
            (record'.status = "viewed" /\ record'.encrypted = "")
     /\ (record # NoRecord /\ record.status = "viewed") =>
          /\ \/ record' = NoRecord
             \/ (record'.status = "viewed" /\ record'.encrypted = ""
                   /\ record'.salt = undefined)
          /\ \A c \in CallIds : RetrieveGet(c) => calls'[c].code = 404]_vars

\* C20: Store failure is safe to retry. A Store that ends in a storage
\* failure leaves the stored record as it was before the call wrote, and
\* leaves no Pending record without an alarm.
StoreFailureLeavesNoRecord ==
  [][\A c \in CallIds :
       (calls[c].op = "store" /\ calls[c].pc = "json"
          /\ calls'[c].code = 500) =>
         /\ record' = record
         /\ (record' # NoRecord /\ record'.status = "pending") =>
              alarm' # NoAlarm]_vars

\* C22: CSRF. A request that changes state (a create, a retrieve of a
\* Pending record, which burns it) and carries no Origin header, or one that
\* differs from the origin of its own URL, is answered 403 and never reaches
\* the actor.
CsrfGuardsStateChange ==
  [][\A c \in CallIds, origin \in Origins \ {OwnOrigin} :
       /\ \A req \in CreateRequests :
            StoreRequest(c, req, origin) =>
              (calls'[c].pc = "done" /\ calls'[c].code = 403)
       /\ \A header \in CountryHeaders :
            (record.status = "pending"
               /\ RetrieveRequest(c, GoodId, header, origin)) =>
              (calls'[c].pc = "done" /\ calls'[c].code = 403)]_vars

\* a create request that passes the Origin check and every validation that
\* comes before the one of the ttl
WellFormedUpToTtl(req) ==
  /\ req.body.id = GoodId
  /\ req.body.encrypted = "P"
  /\ req.body.salt \in {undefined, "", "S"}

SaltWhenProtected ==
  (record # NoRecord /\ record.status = "pending"
     /\ record.passwordProtected)
  => record.salt # undefined

\* C25: every existing record has a scheduled timer. Whenever a record
\* exists (Pending, Viewed or Expired) the actor has an alarm scheduled.
EveryRecordHasTimer == record # NoRecord => alarm # NoAlarm

\* C26: metadata retention. A Viewed record is not deleted before its
\* viewedAt plus 30 days, an Expired record is deleted only by the alarm that
\* was set 30 days ahead when it expired, and until then a Status reports the
\* record's real status.
MetadataRetention ==
  [][/\ (Alarm /\ record # NoRecord /\ record' = NoRecord) =>
          /\ record.status = "viewed" =>
               now >= record.viewedAt + 2592000
          /\ record.status = "expired" =>
               (alarm.by = "alarm" /\ now >= alarm.time)
     /\ \A c \in CallIds :
          (StatusGet(c) /\ record # NoRecord
             /\ record.status \in {"viewed", "expired"}) =>
            calls'[c].out.status = record.status]_vars

\* C27: after a successful Retrieve the Phase-1 timer no longer exists. Right
\* after the step in which a Retrieve is answered 200, the actor's one alarm
\* is the one that Retrieve set, due 30 days after that step and no earlier
\* than viewedAt plus 30 days; the alarm Store set is gone.
TimerAfterRetrieve ==
  [][\A c \in CallIds :
       (calls[c].op = "retrieve" /\ calls[c].code = 0
          /\ calls'[c].code = 200) =>
         /\ alarm' = [time |-> now + 2592000, by |-> "retrieve"]
         /\ alarm'.time >= record'.viewedAt + 2592000]_vars

\* the record was stored with the 1-hour ttl and retrieved; the one alarm is
\* the Retrieve's, 30 days after the burn
TimerAfterRetrieveWitness ==
  /\ \E s \in Stores : calls[s].code = 201 /\ calls[s].ttl = 3600
  /\ \E r \in Retrieves : calls[r].code = 200
  /\ record # NoRecord
  /\ record.status = "viewed"
  /\ alarm = [time |-> record.viewedAt + METADATA_TTL, by |-> "retrieve"]

\* C28: after a Store answered 201 the record is Pending, its expiresAt is
\* its createdAt plus the ttl, and the alarm is due exactly at expiresAt.
TimerAtExpiresAt ==
  [][\A c \in CallIds :
       (calls[c].op = "store" /\ calls[c].code = 0
          /\ calls'[c].code = 201) =>
         /\ record'.status = "pending"
         /\ record'.expiresAt = record'.createdAt + calls[c].ttl
         /\ alarm'.time = record'.expiresAt]_vars

\* C29: a Retrieve answered 404 changes nothing. A step of a Retrieve taken
\* when no record exists or the record is not Pending is answered 404, and a
\* step that answers 404 leaves the record and the alarm as they were.
RetrieveNotFoundNoChange ==
  [][\A c \in CallIds :
       /\ (calls[c].op = "retrieve" /\ calls'[c] # calls[c]
             /\ (record = NoRecord \/ record.status # "pending")) =>
            (calls'[c].code = 404 /\ record' = record /\ alarm' = alarm)
       /\ (calls'[c].op = "retrieve" /\ calls[c].code = 0
             /\ calls'[c].code = 404) =>
            (record' = record /\ alarm' = alarm /\ gate' = gate)]_vars

\* a second Retrieve, without a country, was issued on the Viewed record and
\* answered 404; the record still carries the first viewer's country
RetrieveNotFoundNoChangeWitness ==
  /\ \E r \in Retrieves : calls[r].code = 200 /\ calls[r].country = "US"
  /\ \E r \in RetrievesIssuedOn({"viewed"}) :
       calls[r].code = 404 /\ calls[r].country = undefined
  /\ record # NoRecord
  /\ record.status = "viewed"
  /\ record.viewerCountry = "US"

\* C30: fields fixed at creation stay fixed. As long as the identifier has a
\* record, its createdAt, expiresAt, passwordProtected and creatorUserId do
\* not change, and once it is Viewed its viewedAt and viewerCountry do not
\* change.
FieldsFixed ==
  [][(record # NoRecord /\ record' # NoRecord) =>
       /\ record'.createdAt = record.createdAt
       /\ record'.expiresAt = record.expiresAt
       /\ record'.passwordProtected = record.passwordProtected
       /\ record'.creatorUserId = record.creatorUserId
       /\ record.status = "viewed" =>
            /\ record'.viewedAt = record.viewedAt
            /\ record'.viewerCountry = record.viewerCountry]_vars

\* C21: per-identifier isolation. A step of a Store, Retrieve or Status for
\* one identifier, and the firing of one identifier's alarm, leave the record
\* and the alarm of every other identifier as they were.
Isolation ==
  [][\A b \in IsoIds :
       /\ \A c \in CallIds :
            (calls'[c] # calls[c] /\ calls'[c].id # b) =>
              (RecordOf(b)' = RecordOf(b) /\ AlarmOf(b)' = AlarmOf(b))
       /\ \A a \in IsoIds \ {b} :
            IsoAlarm(idFromName(a)) =>
              (RecordOf(b)' = RecordOf(b) /\ AlarmOf(b)' = AlarmOf(b))]_vars

\* one identifier was stored, retrieved and later deleted by its alarms while
\* the other identifier's record, stored in between, is still there
IsolationWitness ==
  /\ RecordOf(GoodId) = NoRecord
  /\ AlarmOf(GoodId) = NoAlarm
  /\ \E r \in CallIds :
       calls[r].op = "retrieve" /\ calls[r].id = GoodId /\ calls[r].code = 200
  /\ RecordOf(OtherId) # NoRecord
  /\ AlarmOf(OtherId) # NoAlarm

\* the Retrieve calls whose response carries a payload
PayloadResponses ==
  {r \in Retrieves : Done(r) /\ calls[r].out # NoResponse}

\* C31: a payload is handed out only by the step that burns it. The step in
\* which a Retrieve response carries a payload is a Pending to Viewed
\* transition of the record, the payload is that Pending record's, no other
\* call is answered in that step, and there are never more responses with a
\* payload than records written; none is given on an Expired record.
PayloadOnlyByBurn ==
  [][/\ \A c \in CallIds :
          (calls'[c].op = "retrieve" /\ calls[c].pc # "done"
             /\ calls'[c].pc = "done" /\ calls'[c].out # NoResponse) =>
            /\ calls'[c].code = 200
            /\ record # NoRecord
            /\ record.status = "pending"
            /\ record' # NoRecord
            /\ record'.status = "viewed"
            /\ calls'[c].out = RetrieveResponse(record)
            /\ calls'[c].out.encrypted # ""
            /\ \A d \in CallIds \ {c} : calls'[d] = calls[d]
     /\ Cardinality(PayloadResponses')
          <= Cardinality({s \in CallIds : StoreWrote(s)}')]_vars

\* of two Retrieves issued on the Pending record one got the payload and the
\* other 404, and a Retrieve issued on the Viewed record got 404 as well
PayloadOnlyByBurnWitness ==
  /\ Cardinality(PayloadResponses) = 1
  /\ \E r \in PayloadResponses : calls[r].out.encrypted = "P"
  /\ \E r \in RetrievesIssuedOn({"pending"}) : calls[r].code = 404
  /\ record # NoRecord
  /\ record.status = "viewed"
  /\ record.encrypted = ""

\* C33: malformed identifiers are indistinguishable from absent ones and
\* create no actor. A Retrieve with a malformed identifier is answered at
\* once with the 404 a Retrieve on an absent record gets, a Status with a
\* malformed identifier with the 200 {status: unknown} a Status on an absent
\* record gets, and neither is passed to the actor or changes its storage.
MalformedLikeAbsent ==
  [][\A c \in CallIds :
       /\ (calls[c].op = "none" /\ calls'[c].op = "retrieve") =>
            \A id \in {ShortId, BadCharId}, header \in CountryHeaders,
               origin \in SampleOrigins :
              RetrieveRequest(c, id, header, origin) =>
                /\ calls'[c].pc = "done"
                /\ calls'[c].code = 404
                /\ calls'[c].out = NoResponse
                /\ calls'[c].atStart = "none"
       /\ (calls[c].op = "none" /\ calls'[c].op = "status") =>
            \A id \in {ShortId, BadCharId} :
              StatusRequest(c, id) =>
                /\ calls'[c].pc = "done"
                /\ calls'[c].code = 200
                /\ calls'[c].out = [status |-> "unknown"]
                /\ calls'[c].atStart = "none"
       /\ (RetrieveGet(c) /\ record = NoRecord) =>
            (calls'[c].code = 404 /\ calls'[c].out = NoResponse)
       /\ (StatusGet(c) /\ record = NoRecord) =>
            (calls'[c].code = 200 /\ calls'[c].out = [status |-> "unknown"])
       /\ (RetrieveGet(c) \/ StatusGet(c)) => calls[c].atStart # "none"
       /\ (calls'[c] # calls[c] /\ calls'[c].op \in {"retrieve", "status"}
             /\ calls'[c].atStart = "none") =>
            (record' = record /\ alarm' = alarm)]_vars

\* a Retrieve with a malformed identifier and a Retrieve that reached the
\* actor while it had no record were both answered 404, and a Status with a
\* malformed identifier was answered unknown, all before any record existed
MalformedLikeAbsentWitness ==
  /\ \E r \in Retrieves :
       Done(r) /\ calls[r].atStart = "none" /\ calls[r].code = 404
  /\ \E r \in RetrievesIssuedOn({"absent"}) :
       Done(r) /\ calls[r].code = 404 /\ calls[r].out = NoResponse
  /\ \E t \in Statuses :
       /\ Done(t) /\ calls[t].atStart = "none"
       /\ calls[t].out = [status |-> "unknown"]
  /\ record = NoRecord

\* a create request with a malformed identifier, a missing or empty payload,
\* a payload of more than 70*1024 characters or a salt of more than 100
Malformed(body) ==
  \/ body.id \in {ShortId, BadCharId}
  \/ body.encrypted = ""
  \/ StrLen(body.encrypted) > 70 * 1024
  \/ (body.salt # undefined /\ StrLen(body.salt) > 100)

\* C32: validation rejects without side effects. A create request that is
\* malformed ends at the route: it is answered 400 (403 when the Origin
\* check already refused it), it is not passed to the actor, and no record,
\* no alarm and no dashboard entry is written; a request that was answered
\* takes no further step.
ValidationNoSideEffects ==
  [][\A c \in CallIds :
       /\ (calls[c].op = "none" /\ calls'[c].op = "store") =>
            \A req \in DashCreateRequests, origin \in SampleOrigins :
              (Malformed(req.body) /\ DashCreateRequest(c, req, origin)) =>
                /\ calls'[c].pc = "done"
                /\ origin = OwnOrigin => calls'[c].code = 400
                /\ calls'[c].code \in {400, 403}
                /\ calls'[c].record = NoRecord
                /\ calls'[c].user = NoUser
                /\ record' = record
                /\ alarm' = alarm
                /\ users' = users
       /\ calls[c].pc = "done" => calls'[c] = calls[c]]_vars

\* a signed-in user's create was answered 400, every request is answered,
\* and there is no record, no alarm and no new entry on the dashboard
ValidationNoSideEffectsWitness ==
  /\ \E c \in CallIds :
       calls[c].op = "store" /\ Done(c) /\ calls[c].code = 400
  /\ \A c \in CallIds : Done(c) /\ calls[c].code \in {400, 403}
  /\ \A d \in DoIds : record[d] = NoRecord /\ alarm[d] = NoAlarm
  /\ \A u \in UserIds : users[u].secrets = << >>

\* C36: dashboard metadata is written only for stored secrets and stays
\* bounded. A create writes the user record only after the actor answered
\* 201 for a signed-in user, and then the new entry, pending, is the first
\* of the list; a create that ends otherwise writes nothing; the list never
\* holds more than 100 entries; and when no other request has written the
\* user record since the create read it, the list is the new entry followed
\* by the entries it had, cut to the 100 most recent.
DashboardEntries ==
  [][/\ \A c \in CallIds :
          /\ (calls[c].op = "store" /\ calls'[c] # calls[c]
                /\ users' # users) =>
               LET u == calls[c].user.id
                   before == users[u].secrets
                   after == users'[u].secrets IN
               /\ calls[c].pc = "meta"
               /\ calls'[c].code = 201
               /\ calls[c].record # NoRecord
               /\ Len(after) >= 1
               /\ after[1] =
                    [id |-> calls[c].id, status |-> "pending",
                     createdAt |-> calls[c].record.createdAt,
                     expiresAt |-> calls[c].record.expiresAt,
                     passwordProtected |-> calls[c].record.passwordProtected,
                     viewedAt |-> missing, viewerCountry |-> undefined]
               /\ calls[c].user.secrets = before =>
                    /\ Len(after) = IF Len(before) < 100
                                      THEN Len(before) + 1 ELSE 100
                    /\ \A k \in 2..Len(after) : after[k] = before[k - 1]
          /\ (calls'[c].op = "store" /\ calls[c].pc # "done"
                /\ calls'[c].pc = "done" /\ calls'[c].code # 201) =>
               users' = users
          /\ (calls'[c].op = "store" /\ calls[c].pc # "done"
                /\ calls'[c].pc = "done" /\ calls[c].user = NoUser) =>
               users' = users
     /\ \A u \in UserIds : Len(users'[u].secrets) <= 100]_vars

\* the user had 99 entries and created two secrets one after the other: the
\* list holds 100 entries, the two new ones first, and the oldest is gone
DashboardEntriesWitness ==
  \E u \in UserIds :
    /\ Len(users[u].secrets) = 100
    /\ users[u].secrets[1].id = OtherId
    /\ users[u].secrets[1].status = "pending"
    /\ users[u].secrets[2].id = GoodId
    /\ users[u].secrets[3] = OldMeta(SECRETS_CAP - 1)
    /\ users[u].secrets[100] = OldMeta(2)

\* C37: no lost dashboard entries. As long as the list is below its cap, it
\* holds an entry for every secret whose create by the user was answered 201.
NoLostEntries ==
  \A c \in CallIds :
    (calls[c].op = "store" /\ Done(c) /\ calls[c].code = 201
       /\ calls[c].user # NoUser) =>
      LET list == users[calls[c].user.id].secrets IN
      Len(list) < 100 =>
        \E k \in 1..Len(list) :
          /\ list[k].id = calls[c].id
          /\ list[k].createdAt = calls[c].record.createdAt

\* C38: dashboard statuses follow the actor and are terminal. For an entry
\* stored as pending the dashboard returns the actor's status when that is
\* viewed or expired, expired when the actor answers unknown, and the stored
\* entry when the check fails; an entry stored as viewed or expired is
\* returned as it is, and an entry of the user record that is viewed or
\* expired stays in the record as it is (until the cap of 100 drops it), so
\* that it is never pending again.
DashboardTerminal ==
  [][/\ \A c \in CallIds :
          LET stored == calls[c].user.secrets IN
          /\ (calls[c].op = "dashboard" /\ calls'[c].i # calls[c].i) =>
               LET k == calls'[c].i
                   live == StatusResponse(record[idFromName(stored[k].id)])
                   shown == calls'[c].enriched[k] IN
               /\ stored[k].status = "pending"
               /\ (DashLoadCheck(c) /\ live.status \in {"viewed", "expired"})
                    => shown.status = live.status
               /\ (DashLoadCheck(c) /\ live.status = "unknown")
                    => shown.status = "expired"
               /\ DashLoadCheckFail(c) => shown = stored[k]
          /\ (calls'[c].op = "dashboard" /\ calls[c].pc # "done"
                /\ calls'[c].pc = "done") =>
               \A k \in 1..Len(stored) :
                 stored[k].status \in {"viewed", "expired"} =>
                   calls'[c].out.secrets[k] = stored[k]
     /\ \A u \in UserIds :
          users'[u] # users[u] =>
          \A k \in 1..Len(users[u].secrets) :
            users[u].secrets[k].status \in {"viewed", "expired"} =>
              \/ \E j \in 1..Len(users'[u].secrets) :
                   users'[u].secrets[j] = users[u].secrets[k]
              \/ Len(users'[u].secrets) = 100]_vars

\* C34: for a password-protected secret the reveal page requires a password
\* before it burns. Whenever the page sends its Retrieve while the secret is
\* pending and password-protected, the password field is not empty.
PasswordBeforeBurn ==
  [][\A c \in PageCallIds :
       (/\ page # NoPage
        /\ c \notin page.fetched
        /\ c \in page'.fetched
        /\ record # NoRecord
        /\ record.status = "pending"
        /\ record.passwordProtected) =>
         page'.password # ""]_vars

Authenticated(call) ==
  call.op = "auth" /\ call.pc = "done" /\ call.code = 200 /\ call.user # NoUser

\* the answer to a request without a valid session
Unauthenticated(call) ==
  /\ call.pc = "done"
  /\ call.user = NoUser
  /\ call.code = IF call.kind = "require" THEN 401 ELSE 200

\* C39: sessions end. A request whose session id has no value in the
\* namespace (never stored, logged out, expired there) or whose session's
\* expiresAt has passed is not authenticated: requireAuth answers 401,
\* optionalAuth goes on without a user, /api/auth/me reports none. The
\* middleware deletes the expired session before it answers, a deleted
\* session never comes back, an authenticated request read a session that
\* had not expired, and requireAuth passes no request without a user.
SessionsEnd ==
  [][/\ \A c \in CallIds :
          /\ (calls[c].op = "auth" /\ calls[c].pc = "session"
                /\ calls'[c] # calls[c]) =>
               LET entry == sessions[calls[c].cookie] IN
               /\ calls'[c].session = entry
               /\ calls'[c].at = now
               /\ KvNull(entry) => Unauthenticated(calls'[c])
               /\ (entry.kind = "session" /\ entry.expiresAt < now) =>
                    IF calls[c].kind = "me"
                      THEN Unauthenticated(calls'[c])
                      ELSE calls'[c].pc = "delete"
          /\ (calls[c].op = "auth" /\ calls[c].pc = "delete"
                /\ calls'[c] # calls[c]) =>
               \/ Unauthenticated(calls'[c])
                    /\ KvNull(sessions'[calls[c].cookie])
               \/ calls'[c].pc = "done" /\ calls'[c].code = 500
                    /\ calls'[c].user = NoUser
          /\ Authenticated(calls'[c]) =>
               /\ calls'[c].session.kind = "session"
               /\ calls'[c].session.expiresAt >= calls'[c].at
          /\ (calls'[c].op = "auth" /\ calls'[c].kind = "require"
                /\ calls'[c].pc = "done" /\ calls'[c].code = 200) =>
               calls'[c].user # NoUser
          /\ (calls[c].op = "auth" /\ calls[c].pc = "done") =>
               calls'[c] = calls[c]
     /\ \A k \in AuthKeys : sessions[k] = Gone => sessions'[k] = Gone]_vars

\* after a sign-in the session's time ran out: a request behind requireAuth
\* found it expired, deleted it and answered 401, and a request with the key
\* of an OAuth state as its session id was answered 401 for want of a user
SessionsEndWitness ==
  /\ calls[1].op = "callback" /\ calls[1].out = "/dashboard"
  /\ sessions[SessionKey(1)] = Gone
  /\ \E c \in CallIds :
       /\ calls[c].op = "auth" /\ calls[c].kind = "require"
       /\ calls[c].cookie = SessionKey(1)
       /\ calls[c].session.kind = "session"
       /\ calls[c].session.expiresAt < calls[c].at
       /\ calls[c].pc = "done" /\ calls[c].code = 401
  /\ \E c \in CallIds :
       /\ calls[c].op = "auth" /\ calls[c].kind = "require"
       /\ calls[c].session.kind = "state"
       /\ calls[c].pc = "done" /\ calls[c].code = 401

\* the callbacks that passed the validation of a state
PassedWith(state) ==
  {c \in CallIds : calls[c].op = "callback" /\ calls[c].state = state
                     /\ calls[c].passed}

\* C40: an OAuth state is single-use. At most one callback passes the
\* validation of a state value; every other callback with that state ends
\* with the redirect invalid_state and sets no session cookie.
StateSingleUse ==
  \A state \in StateValues :
    /\ Cardinality(PassedWith(state)) <= 1
    /\ \A c \in CallIds :
         (calls[c].op = "callback" /\ calls[c].state = state
            /\ calls[c].pc = "done" /\ PassedWith(state) \ {c} # {}) =>
           calls[c].out = "invalid_state" /\ calls[c].cookie = NoCookie

====
